---- MODULE Spec2Model ----
(***************************************************************************)
(* Tempo estimation of madmom (madmom/features/tempo.py): smooth_signal,   *)
(* smooth_histogram, interval_histogram and Tempo.detect.                  *)
(*                                                                         *)
(* Numbers.  Activations, histogram bins and kernels are real arrays.  An  *)
(* array is modelled as a record [num, den]: its i-th element is the       *)
(* rational num[i] / den.  A single real (a tempo, a strength) is a        *)
(* fraction [n, d] in lowest terms; d = 0 with n = 0 is NaN and d = 0 with *)
(* n > 0 is +inf, as numpy's float division produces them.  The arithmetic *)
(* is exact; the float rounding of the source is not modelled.             *)
(***************************************************************************)
EXTENDS Integers, Sequences, FiniteSets, TLC

VARIABLES
    activations,   \* self.activations
    fps,           \* self.fps
    args,          \* the arguments of the running detect() call
    histogram,     \* local `histogram` of detect: [bins, lags]
    peaks,         \* local `peaks` of detect
    sorted_peaks,  \* local `sorted_peaks` of detect
    anchor,        \* the rows np.argmax selected in the grouping, as peaks
    result,        \* the tuple detect returned
    raised,        \* the exception that ended the call ("" when none)
    pc,            \* position in the running call
    smooth,        \* SmoothSpec: the `smooth` argument of the smoothing call
    smoothed       \* SmoothSpec: outcome of the smoothing call

vars == <<activations, fps, args, histogram, peaks, sorted_peaks, anchor,
          result, raised, pc, smooth, smoothed>>

----------------------------------------------------------------------------
(* Bounds of the model and program constants.                               *)

\* longest 0/1 activation signal enumerated by Init
MaxLen == 6
\* longest signal / explicit kernel enumerated by InitSmooth
MaxSmoothLen == 3

\* defaults of Tempo.detect; ACT_SMOOTH is 0.13 s, kept in hundredths
ACT_SMOOTH == 13
MIN_BPM == 40
MAX_BPM == 240
HIST_SMOOTH == 5
GROUPING_DEV == 0
\* denominator of the act_smooth argument (hundredths of a second)
SecondsDen == 100
\* denominator of the np.hamming weights below
KernelDen == 100

----------------------------------------------------------------------------
(* Arithmetic helpers.                                                      *)

Abs(x) == IF x < 0 THEN -x ELSE x

Max(a, b) == IF a >= b THEN a ELSE b

RECURSIVE Gcd(_, _)
Gcd(a, b) == IF b = 0 THEN a ELSE Gcd(b, a % b)

RECURSIVE Pow(_, _)
Pow(b, e) == IF e = 0 THEN 1 ELSE b * Pow(b, e - 1)

RECURSIVE SumSeq(_)
SumSeq(s) == IF Len(s) = 0 THEN 0 ELSE Head(s) + SumSeq(Tail(s))

\* the real n / d (n >= 0, d >= 0) in lowest terms; 0/0 is NaN, n/0 is inf
Frac(n, d) ==
    IF d = 0 THEN [n |-> IF n = 0 THEN 0 ELSE 1, d |-> 0]
    ELSE LET g == Gcd(n, d) IN [n |-> n \div g, d |-> d \div g]

\* a / b for two fractions
FracDiv(a, b) == Frac(a.n * b.d, a.d * b.n)

\* a real array with numerators num over the common denominator den
Arr(num, den) == [num |-> num, den |-> den]

\* outcome of a call: a returned value or a raised exception
Ok(v) == [ok |-> TRUE, val |-> v]
Raise(e) == [ok |-> FALSE, val |-> e]

Reverse(s) == [i \in 1..Len(s) |-> s[Len(s) + 1 - i]]

\* the elements of a set of integers in increasing order
RECURSIVE Ascending(_)
Ascending(S) ==
    IF S = {} THEN <<>>
    ELSE LET m == CHOOSE x \in S : \A y \in S : x <= y
         IN <<m>> \o Ascending(S \ {m})

\* all sequences over S of length 0..n
SeqsUpTo(S, n) == UNION {[1..k -> S] : k \in 0..n}

----------------------------------------------------------------------------
(* numpy / scipy primitives used by the source.                             *)

\* np.hamming(M) = 0.54 - 0.46 cos(2 pi k / (M - 1)), in units of 1/KernelDen;
\* exact for the sizes the model uses (cos is 1, -1, 0 or -1/2 there)
hamming(M) ==
    CASE M = 2 -> <<8, 8>>
      [] M = 3 -> <<8, 100, 8>>
      [] M = 4 -> <<8, 77, 77, 8>>
      [] M = 5 -> <<8, 54, 100, 54, 8>>

\* np.convolve(a, v, 'same') on numerators, both non-empty: numpy swaps the
\* operands when v is the longer one, and returns the centred max(M, N)
\* samples of the full convolution
convolve_same(a, v) ==
    LET long == IF Len(v) > Len(a) THEN v ELSE a
        short == IF Len(v) > Len(a) THEN a ELSE v
        n1 == Len(long)
        n2 == Len(short)
        n_right == (n2 - 1) \div 2
        full(k) == SumSeq([j \in 1..n2 |->
                      IF (k - j + 1) \in 1..n1
                      THEN long[k - j + 1] * short[j] ELSE 0])
    IN [i \in 1..n1 |-> full(i + n_right)]

\* np.convolve(signal, kernel, 'same'): ValueError on an empty operand
convolve(signal, kernel) ==
    IF Len(signal.num) = 0 \/ Len(kernel.num) = 0
    THEN Raise("ValueError")
    ELSE Ok(Arr(convolve_same(signal.num, kernel.num),
                signal.den * kernel.den))

\* argrelmax with mode='clip': the neighbours of the two ends are the ends
\* themselves, so neither end is ever a peak
argrelmax_clip(bins) ==
    LET n == Len(bins)
        nxt(i) == IF i = n THEN n ELSE i + 1
        prv(i) == IF i = 1 THEN 1 ELSE i - 1
    IN Ascending({i \in 1..n : bins[i] > bins[nxt(i)] /\ bins[i] > bins[prv(i)]})

\* scipy.signal.argrelmax(bins, mode='wrap')[0]: indices strictly greater
\* than both circular neighbours, in increasing order (1-based here)
argrelmax(bins) ==
    LET n == Len(bins)
        nxt(i) == (i % n) + 1
        prv(i) == ((i + n - 2) % n) + 1
    IN Ascending({i \in 1..n : bins[i] > bins[nxt(i)] /\ bins[i] > bins[prv(i)]})

\* argsort that leaves the order as it is
argsort_identity(v) == {[i \in 1..Len(v) |-> i]}

\* np.argsort(v): a permutation that sorts v ascending.  The default kind
\* is not stable, so the order of equal elements is any order.
argsort(v) ==
    {p \in [1..Len(v) -> 1..Len(v)] :
        /\ \A i, j \in 1..Len(v) : i # j => p[i] # p[j]
        /\ \A i, j \in 1..Len(v) : i < j => v[p[i]] <= v[p[j]]}

\* np.argmax(v): the first index of the maximum
argmax(v) ==
    CHOOSE i \in 1..Len(v) :
        /\ \A j \in 1..Len(v) : v[j] <= v[i]
        /\ \A j \in 1..(i - 1) : v[j] < v[i]

----------------------------------------------------------------------------
(* Module-level helpers of tempo.py.                                        *)

\* an int `smooth` argument and an np.ndarray one
IntKernel(k) == [kind |-> "int", size |-> k, weights |-> Arr(<<>>, 1)]
ArrayKernel(w) == [kind |-> "ndarray", size |-> 0, weights |-> w]
\* any other type (a float, a list)
OtherKernel == [kind |-> "other", size |-> 0, weights |-> Arr(<<>>, 1)]

smooth_signal(signal, sm) ==
    LET kernel ==
            IF sm.kind = "int"
            THEN IF sm.size > 1 THEN Ok(Arr(hamming(sm.size), KernelDen))
                 ELSE Raise("None")
            ELSE IF sm.kind = "ndarray"
            THEN IF Len(sm.weights.num) > 1 THEN Ok(sm.weights)
                 ELSE Raise("None")
            ELSE Raise("None")
    IN IF ~kernel.ok THEN Raise("ValueError")
       ELSE convolve(signal, kernel.val)

smooth_histogram(hist, sm) ==
    LET s == smooth_signal(hist.bins, sm)
    IN IF s.ok THEN Ok([bins |-> s.val, lags |-> hist.lags]) ELSE s

\* histogram_bins with the shift by tau left out of the product
histogram_bins_unshifted(act, taus) ==
    LET n == Len(act)
        bin(tau) ==
            IF tau = 0 \/ tau >= n THEN 0
            ELSE SumSeq([t \in 1..(n - tau) |-> Abs(act[t] * act[t])])
    IN [i \in 1..Len(taus) |-> bin(taus[i])]

\* the bins of interval_histogram: one rectified autocorrelation per tau.
\* For tau >= len both slices are empty (sum 0); for tau = 0 the second
\* slice activations[0:-0] is empty as well.
histogram_bins(act, taus) ==
    LET n == Len(act)
        bin(tau) ==
            IF tau = 0 \/ tau >= n THEN 0
            ELSE SumSeq([t \in 1..(n - tau) |-> Abs(act[t + tau] * act[t])])
    IN [i \in 1..Len(taus) |-> bin(taus[i])]

\* range(min_tau, max_tau)
taus_range(min_tau, max_tau) ==
    [i \in 1..Max(0, max_tau - min_tau) |-> min_tau + i - 1]

\* interval_histogram(activations, smooth, min_tau, max_tau), smooth an int.
\* With tau = 0 the product of an n-array and an empty array cannot be
\* broadcast for n >= 2 (ValueError).
interval_histogram(act, sm, min_tau, max_tau) ==
    LET s == IF sm # 0 THEN smooth_signal(act, IntKernel(sm)) ELSE Ok(act)
    IN IF ~s.ok THEN s
       ELSE LET taus == taus_range(min_tau, max_tau)
            IN IF (\E i \in 1..Len(taus) : taus[i] = 0) /\ Len(s.val.num) >= 2
               THEN Raise("ValueError")
               ELSE Ok([bins |-> Arr(histogram_bins(s.val.num, taus),
                                     s.val.den * s.val.den),
                        lags |-> taus])

----------------------------------------------------------------------------
(* Tempo.detect.                                                            *)

\* NO_TEMPO = np.nan
NO_TEMPO == Frac(0, 0)

\* int(round(self.fps * act_smooth)): Python 2 rounds halves away from zero
act_smooth_frames(f, a) ==
    (2 * f * a.act_smooth + SecondsDen) \div (2 * SecondsDen)

\* int(np.floor(60. * self.fps / max_bpm))
min_tau_of(f, a) == (60 * f) \div a.max_bpm

\* int(np.ceil(60. * self.fps / min_bpm))
max_tau_of(f, a) == (60 * f + a.min_bpm - 1) \div a.min_bpm

\* tempi = 60.0 * self.fps / histogram[1]
tempi_of(f, hist) == [i \in 1..Len(hist.lags) |-> Frac(60 * f, hist.lags[i])]

\* arr[idx] with an index array: the picked elements
Take(arr, idx) == [i \in 1..Len(idx) |-> arr[idx[i]]]

\* descending_orders without the [::-1]
ascending_orders(arr, of_values) ==
    {Take(arr, p) : p \in argsort(of_values)}

\* peaks[np.argsort(bins[peaks])[::-1]]: the possible descending orders
descending_orders(arr, of_values) ==
    {Take(arr, Reverse(p)) : p \in argsort(of_values)}

\* round(D * |log_base(p / q)|) for integers p >= q >= 1: the k with
\* base^(2k-1) q^(2D) <= p^(2D) < base^(2k+1) q^(2D)
RECURSIVE round_log(_, _, _, _, _)
round_log(p, q, D, base, k) ==
    IF Pow(p, 2 * D) < Pow(base, 2 * k + 1) * Pow(q, 2 * D) THEN k
    ELSE round_log(p, q, D, base, k + 1)

\* np.round(|log(c)| / dev) * dev % 1 == 0 for a tolerance dev = 1 / D
\* and a positive ratio c, log taken to the given base
within_deviation(c, dev, base) ==
    LET p == Max(c.n, c.d)
        q == IF c.n >= c.d THEN c.d ELSE c.n
    IN round_log(p, q, dev.d, base, 0) % dev.d = 0

\* c = t / t[:, np.newaxis] and its flags: flags[i][j] for c[i][j] = t[j] / t[i]
relation(t, dev, base) ==
    [i \in 1..Len(t) |-> [j \in 1..Len(t) |->
        within_deviation(FracDiv(t[j], t[i]), dev, base)]]

\* np.argmax(np.sum(double_c, axis=1)): the row with the most flags
winning_row(flags) ==
    argmax([i \in 1..Len(flags) |->
              Cardinality({j \in 1..Len(flags) : flags[i][j]})])

\* (bins[sorted_peaks][np.newaxis, :] * flags)[row]
masked_row(b, flags, row) ==
    [j \in 1..Len(b) |-> IF flags[row][j] THEN b[j] ELSE 0]

\* the grouping of detect for sorted peak tempi t with bin heights b
grouping(t, b, dev) ==
    LET double_c == relation(t, dev, 2)
        triple_c == relation(t, dev, 3)
        dwin == winning_row(double_c)
        twin == winning_row(triple_c)
        double_tempi == masked_row(b, double_c, dwin)
        triple_tempi == masked_row(b, triple_c, twin)
    IN [double |-> dwin, triple |-> twin,
        strengths |-> [j \in 1..Len(b) |->
                          Max(double_tempi[j], triple_tempi[j])]]

\* relative_strength taken of the second peak
relative_strength_of_second(b1, b2) == Frac(b2, b1 + b2)

\* bins[sorted_peaks[0]] / np.sum(bins[sorted_peaks[:2]])
relative_strength(b1, b2) == Frac(b1, b1 + b2)

----------------------------------------------------------------------------
(* Inputs.                                                                  *)

\* activation signals: every 0/1 signal up to MaxLen frames, and four
\* signals with larger amplitudes
ExampleSignals ==
    { <<3, 1, 1, 1, 3, 3>>,        \* peaks at lags 2 and 4 of heights 10, 12
      <<5, 0, 1, 0, 1, 0, 5>>,     \* peaks at lags 2, 4, 6 of heights 11, 10, 25
      <<1, 0, 1, 0, 0, 2, 0, 2>>,  \* peaks at lags 2, 5, 7 of heights 5, 4, 2
      <<4, 1, 0, 0, 1, 3>> }       \* heights increasing with the lag

Signals == SeqsUpTo({0, 1}, MaxLen) \cup ExampleSignals

FrameRates == {4}

\* the arguments detect is called with
ActSmooths == {0, ACT_SMOOTH, 50, 75}
HistSmooths == {0, 1, 2, HIST_SMOOTH}
MinBpms == {30, MIN_BPM, 200}
MaxBpms == {100, MAX_BPM, 500}
GroupingDevs == {Frac(GROUPING_DEV, 1), Frac(1, 2), Frac(1, 4)}

DetectArgs ==
    [act_smooth : ActSmooths, hist_smooth : HistSmooths, min_bpm : MinBpms,
     max_bpm : MaxBpms, grouping_dev : GroupingDevs]

DefaultArgs ==
    [act_smooth |-> ACT_SMOOTH, hist_smooth |-> HIST_SMOOTH,
     min_bpm |-> MIN_BPM, max_bpm |-> MAX_BPM,
     grouping_dev |-> Frac(GROUPING_DEV, 1)]

EmptyHistogram == [bins |-> Arr(<<>>, 1), lags |-> <<>>]

NoAnchor == [double |-> 0, triple |-> 0]

----------------------------------------------------------------------------
(* Tempo(activations, fps) followed by one detect(...) call.                *)

Init ==
    /\ activations \in {Arr(s, 1) : s \in Signals}
    /\ fps \in FrameRates
    /\ args = DefaultArgs
    /\ histogram = EmptyHistogram
    /\ peaks = <<>>
    /\ sorted_peaks = <<>>
    /\ anchor = NoAnchor
    /\ result = <<>>
    /\ raised = ""
    /\ pc = "init"
    /\ smooth = IntKernel(0)
    /\ smoothed = Raise("")

\* lines 155-160: convert the arguments to frames, build the histogram
BuildHistogram ==
    /\ pc = "init"
    /\ \E a \in DetectArgs :
         LET h == interval_histogram(activations, act_smooth_frames(fps, a),
                                     min_tau_of(fps, a), max_tau_of(fps, a))
         IN /\ args' = a
            /\ IF h.ok
               THEN histogram' = h.val /\ raised' = raised /\ pc' = "histogram"
               ELSE histogram' = histogram /\ raised' = h.val /\ pc' = "raised"
    /\ UNCHANGED <<activations, fps, peaks, sorted_peaks, anchor, result,
                   smooth, smoothed>>

\* lines 162-163: smooth the histogram again
SmoothHistogram ==
    /\ pc = "histogram"
    /\ LET h == IF args.hist_smooth # 0
                THEN smooth_histogram(histogram, IntKernel(args.hist_smooth))
                ELSE Ok(histogram)
       IN IF h.ok
          THEN histogram' = h.val /\ raised' = raised /\ pc' = "smoothed"
          ELSE histogram' = histogram /\ raised' = h.val /\ pc' = "raised"
    /\ UNCHANGED <<activations, fps, args, peaks, sorted_peaks, anchor, result,
                   smooth, smoothed>>

\* lines 165-170: keep the peaks of the histogram
FindPeaks ==
    /\ pc = "smoothed"
    /\ peaks' = argrelmax(histogram.bins.num)
    /\ pc' = "peaks"
    /\ UNCHANGED <<activations, fps, args, histogram, sorted_peaks, anchor,
                   result, raised, smooth, smoothed>>

\* lines 172-174: no peaks, no tempo
ReturnNoTempo ==
    /\ pc = "peaks"
    /\ Len(peaks) = 0
    /\ result' = <<NO_TEMPO, NO_TEMPO, Frac(0, 1)>>
    /\ pc' = "done"
    /\ UNCHANGED <<activations, fps, args, histogram, peaks, sorted_peaks,
                   anchor, raised, smooth, smoothed>>

\* lines 175-177: report only the strongest tempo; tempi[peaks[0]] is an
\* IndexError when the peak lies beyond the lags
ReturnOneTempo ==
    /\ pc = "peaks"
    /\ Len(peaks) = 1
    /\ LET tempi == tempi_of(fps, histogram)
       IN IF peaks[1] <= Len(tempi)
          THEN /\ result' = <<tempi[peaks[1]], NO_TEMPO, Frac(1, 1)>>
               /\ raised' = raised
               /\ pc' = "done"
          ELSE /\ result' = result
               /\ raised' = "IndexError"
               /\ pc' = "raised"
    /\ UNCHANGED <<activations, fps, args, histogram, peaks, sorted_peaks,
                   anchor, smooth, smoothed>>

\* line 180: sort the peaks in descending order of bin heights
SortPeaks ==
    /\ pc = "peaks"
    /\ Len(peaks) >= 2
    /\ sorted_peaks' \in
           descending_orders(peaks, Take(histogram.bins.num, peaks))
    /\ pc' = "sorted"
    /\ UNCHANGED <<activations, fps, args, histogram, peaks, anchor, result,
                   raised, smooth, smoothed>>

\* lines 182-210: group the tempi; tempi[sorted_peaks] is an IndexError when
\* a peak lies beyond the lags
GroupTempi ==
    /\ pc = "sorted"
    /\ args.grouping_dev.n # 0
    /\ LET tempi == tempi_of(fps, histogram)
       IN IF \A i \in 1..Len(sorted_peaks) : sorted_peaks[i] <= Len(tempi)
          THEN LET g == grouping(Take(tempi, sorted_peaks),
                                 Take(histogram.bins.num, sorted_peaks),
                                 args.grouping_dev)
               IN /\ sorted_peaks' \in
                        descending_orders(sorted_peaks, g.strengths)
                  /\ anchor' = [double |-> sorted_peaks[g.double],
                                triple |-> sorted_peaks[g.triple]]
                  /\ raised' = raised
                  /\ pc' = "ranked"
          ELSE /\ sorted_peaks' = sorted_peaks
               /\ anchor' = anchor
               /\ raised' = "IndexError"
               /\ pc' = "raised"
    /\ UNCHANGED <<activations, fps, args, histogram, peaks, result, smooth,
                   smoothed>>

\* line 182, grouping_dev = 0: the tempi are not grouped
SkipGrouping ==
    /\ pc = "sorted"
    /\ args.grouping_dev.n = 0
    /\ pc' = "ranked"
    /\ UNCHANGED <<activations, fps, args, histogram, peaks, sorted_peaks,
                   anchor, result, raised, smooth, smoothed>>

\* lines 212-216: return the 2 strongest tempi and their relative strength
ReturnTwoTempi ==
    /\ pc = "ranked"
    /\ LET tempi == tempi_of(fps, histogram)
           bins == histogram.bins.num
       IN IF sorted_peaks[1] <= Len(tempi) /\ sorted_peaks[2] <= Len(tempi)
          THEN /\ result' = <<tempi[sorted_peaks[1]], tempi[sorted_peaks[2]],
                              relative_strength(bins[sorted_peaks[1]],
                                                bins[sorted_peaks[2]])>>
               /\ raised' = raised
               /\ pc' = "done"
          ELSE /\ result' = result
               /\ raised' = "IndexError"
               /\ pc' = "raised"
    /\ UNCHANGED <<activations, fps, args, histogram, peaks, sorted_peaks,
                   anchor, smooth, smoothed>>

Next ==
    \/ BuildHistogram
    \/ SmoothHistogram
    \/ FindPeaks
    \/ ReturnNoTempo
    \/ ReturnOneTempo
    \/ SortPeaks
    \/ GroupTempi
    \/ SkipGrouping
    \/ ReturnTwoTempi

Spec == Init /\ [][Next]_vars

----------------------------------------------------------------------------
(* smooth_signal and smooth_histogram called on their own.                  *)

SmoothSignals == SeqsUpTo({0, 1, 2}, MaxSmoothLen)

KernelSizes == {-1, 0, 1, 2, 3, 4, HIST_SMOOTH}

SmoothArgs ==
    {IntKernel(k) : k \in KernelSizes}
    \cup {ArrayKernel(Arr(w, 1)) : w \in SeqsUpTo({1, 2}, MaxSmoothLen)}
    \cup {OtherKernel}

InitSmooth ==
    /\ activations = Arr(<<>>, 1)
    /\ fps \in FrameRates
    /\ args = DefaultArgs
    /\ histogram \in {[bins |-> Arr(s, 1), lags |-> taus_range(1, Len(s) + 1)] :
                        s \in SmoothSignals}
    /\ peaks = <<>>
    /\ sorted_peaks = <<>>
    /\ anchor = NoAnchor
    /\ result = <<>>
    /\ raised = ""
    /\ pc = "smooth"
    /\ smooth \in SmoothArgs
    /\ smoothed = Raise("")

\* smooth_signal(histogram[0], smooth)
CallSmoothSignal ==
    /\ pc = "smooth"
    /\ smoothed' = smooth_signal(histogram.bins, smooth)
    /\ pc' = "signal_smoothed"
    /\ UNCHANGED <<activations, fps, args, histogram, peaks, sorted_peaks,
                   anchor, result, raised, smooth>>

\* smooth_histogram(histogram, smooth)
CallSmoothHistogram ==
    /\ pc = "smooth"
    /\ smoothed' = smooth_histogram(histogram, smooth)
    /\ pc' = "histogram_smoothed"
    /\ UNCHANGED <<activations, fps, args, histogram, peaks, sorted_peaks,
                   anchor, result, raised, smooth>>

NextSmooth ==
    \/ CallSmoothSignal
    \/ CallSmoothHistogram

SmoothSpec == InitSmooth /\ [][NextSmooth]_vars

----------------------------------------------------------------------------
(* Properties.                                                              *)

\* tempo(p) = 60 * frameRate / lags[p] of the bin p of the histogram
tempo(p) == Frac(60 * fps, histogram.lags[p])

\* the height of the bin p as a numerator over histogram.bins.den
height(p) == histogram.bins.num[p]

PeakSet == {peaks[i] : i \in 1..Len(peaks)}

Returned == pc = "done"

\* the grouping of lines 182-210 has run
Grouped == pc \in {"ranked", "done"} /\ anchor # NoAnchor

AllZero(a) == \A t \in 1..Len(a) : a[t] = 0

\* C1: whenever detect returns, the result is fixed by the number of peaks:
\* none gives (NO_TEMPO, NO_TEMPO, 0.0), also for every all-zero signal; one
\* gives (tempo of the peak, NO_TEMPO, 1.0); two or more give the tempi of
\* the first two peaks of the final ranking and
\* bins[top1] / (bins[top1] + bins[top2]).
C1_ResultByPeakCount ==
    Returned =>
        /\ Len(peaks) = 0 =>
               result = <<NO_TEMPO, NO_TEMPO, Frac(0, 1)>>
        /\ AllZero(activations.num) =>
               result = <<NO_TEMPO, NO_TEMPO, Frac(0, 1)>>
        /\ Len(peaks) = 1 =>
               result = <<tempo(peaks[1]), NO_TEMPO, Frac(1, 1)>>
        /\ Len(peaks) >= 2 =>
               LET top1 == sorted_peaks[1]
                   top2 == sorted_peaks[2]
               IN result = <<tempo(top1), tempo(top2),
                             Frac(height(top1), height(top1) + height(top2))>>

\* C1 witness: a call with grouping returned two tempi of different heights
C1_Witness ==
    /\ Returned
    /\ Grouped
    /\ Len(peaks) >= 2
    /\ height(sorted_peaks[1]) # height(sorted_peaks[2])

\* C2: smooth_signal(signal, k) returns the signal unchanged and raises no
\* error for every integer kernel size k <= 1.
C2_SmoothIdentity ==
    (pc = "signal_smoothed" /\ smooth.kind = "int" /\ smooth.size <= 1) =>
        (smoothed.ok /\ smoothed.val = histogram.bins)

\* a usable kernel: an integer size > 1 or explicit weights of length > 1
UsableKernel ==
    \/ smooth.kind = "int" /\ smooth.size > 1
    \/ smooth.kind = "ndarray" /\ Len(smooth.weights.num) > 1

\* C3: for a signal of length >= 1 and a usable kernel, also one longer than
\* the signal, smooth_signal returns as many samples as the signal has, and
\* smooth_histogram returns the lags unchanged with as many bins as lags.
C3_SmoothKeepsLength ==
    (UsableKernel /\ Len(histogram.bins.num) >= 1) =>
        /\ pc = "signal_smoothed" =>
               (smoothed.ok
                /\ Len(smoothed.val.num) = Len(histogram.bins.num))
        /\ pc = "histogram_smoothed" =>
               (smoothed.ok
                /\ smoothed.val.lags = histogram.lags
                /\ Len(smoothed.val.bins.num) = Len(smoothed.val.lags))

\* C4: detect never returns a result when the activations are empty or
\* min_tau >= len(activations); it fails with an error.
C4_EmptyActivationsFail ==
    (\/ Len(activations.num) = 0
     \/ min_tau_of(fps, args) >= Len(activations.num)) => ~Returned

\* a holds k unit impulses P frames apart, the first at frame s, zero elsewhere
ImpulseTrain(a, s, P, k) ==
    /\ s + (k - 1) * P <= Len(a)
    /\ \A t \in 1..Len(a) :
           a[t] = IF t >= s /\ (t - s) % P = 0 /\ (t - s) \div P < k
                  THEN 1 ELSE 0

\* the histogram interval_histogram built without smoothing the activations
UnsmoothedHistogram ==
    pc = "histogram" /\ act_smooth_frames(fps, args) = 0

\* C5: for k >= 2 unit impulses P frames apart, without smoothing and with
\* min_tau <= P < max_tau, the bins are the largest at lag P and nowhere
\* else; lags[i] = min_tau + i (counted from 0).
C5_ImpulseTrainMaximum ==
    UnsmoothedHistogram =>
        \A s, P \in 1..Len(activations.num), k \in 2..Len(activations.num) :
            (/\ ImpulseTrain(activations.num, s, P, k)
             /\ min_tau_of(fps, args) <= P
             /\ P < max_tau_of(fps, args)) =>
                LET at == P - min_tau_of(fps, args) + 1
                IN /\ at \in 1..Len(histogram.bins.num)
                   /\ \A i \in 1..Len(histogram.lags) :
                          histogram.lags[i] = min_tau_of(fps, args) + i - 1
                   /\ \A i \in 1..Len(histogram.bins.num) :
                          i # at => height(i) < height(at)

\* C5 witness: three impulses two or more frames apart, P not the first lag
C5_Witness ==
    /\ UnsmoothedHistogram
    /\ \E s, P \in 1..Len(activations.num) :
          /\ ImpulseTrain(activations.num, s, P, 3)
          /\ P >= 2
          /\ min_tau_of(fps, args) < P
          /\ P < max_tau_of(fps, args)

\* the peaks p, q are flagged as related in the log space of the given base
Related(p, q, base) ==
    within_deviation(FracDiv(tempo(q), tempo(p)), args.grouping_dev, base)

\* exactly two peaks, of 120 BPM with height 10 and of 60 BPM with height 12,
\* grouped with a tolerance that flags them as double-related
TwoPeaks120And60 ==
    /\ Grouped
    /\ Len(peaks) = 2
    /\ \E p, q \in PeakSet :
          /\ tempo(p) = Frac(120, 1)
          /\ tempo(q) = Frac(60, 1)
          /\ height(p) = 10 * histogram.bins.den
          /\ height(q) = 12 * histogram.bins.den
          /\ Related(p, q, 2)

C7_UngroupedRanking ==
    (Returned /\ args.grouping_dev.n = 0 /\ Len(peaks) >= 2) =>
        LET top1 == sorted_peaks[1]
            top2 == sorted_peaks[2]
        IN /\ Len(sorted_peaks) = Len(peaks)
           /\ {sorted_peaks[i] : i \in 1..Len(sorted_peaks)} = PeakSet
           /\ \A i, j \in 1..Len(sorted_peaks) :
                  i < j => height(sorted_peaks[i]) >= height(sorted_peaks[j])
           /\ result[1] = tempo(top1)
           /\ result[2] = tempo(top2)
           /\ height(top1) >= height(top2)
           /\ \A p \in PeakSet : height(p) <= height(top1)
           /\ \A p \in PeakSet \ {top1} : height(p) <= height(top2)

\* C7 witness: an ungrouped call returned with three peaks of three heights
C7_Witness ==
    /\ Returned
    /\ args.grouping_dev.n = 0
    /\ Len(peaks) >= 3
    /\ \A p, q \in PeakSet : p # q => height(p) # height(q)

StrictlyIncreasing(b) == \A i \in 1..(Len(b) - 1) : b[i] < b[i + 1]

StrictlyDecreasing(b) == \A i \in 1..(Len(b) - 1) : b[i] > b[i + 1]

PeaksFound == pc \in {"peaks", "sorted", "ranked", "done"}

\* C8: of a strictly monotonic histogram of three or more bins exactly one
\* peak is found, the end with the larger value; of a histogram of fewer
\* than two bins no peak is found.
C8_WrapAroundPeaks ==
    PeaksFound =>
        LET b == histogram.bins.num
        IN /\ (Len(b) >= 3 /\ StrictlyIncreasing(b)) => peaks = <<Len(b)>>
           /\ (Len(b) >= 3 /\ StrictlyDecreasing(b)) => peaks = <<1>>
           /\ Len(b) < 2 => peaks = <<>>

\* C8 witness: the peaks of a strictly increasing histogram were extracted
C8_Witness ==
    /\ PeaksFound
    /\ Len(histogram.bins.num) >= 3
    /\ StrictlyIncreasing(histogram.bins.num)

\* the sum of the heights of all peaks flagged as related to the peak p
FlaggedSum(p, base) ==
    SumSeq([i \in 1..Len(peaks) |->
              IF Related(p, peaks[i], base) THEN height(peaks[i]) ELSE 0])

\* C9: the anchor of the double relation, and that of the triple relation,
\* is a peak whose flagged strength sum is maximal among all peaks.
C9_AnchorHasMaximalSum ==
    Grouped =>
        \A p \in PeakSet :
            /\ FlaggedSum(p, 2) <= FlaggedSum(anchor.double, 2)
            /\ FlaggedSum(p, 3) <= FlaggedSum(anchor.triple, 3)

\* C10: with grouping_dev > 0, two or more peaks and no two distinct peaks
\* flagged as double- or triple-related, the re-ranked peaks are the peaks
\* in descending order of bin height.
C10_UnrelatedKeepRanking ==
    (/\ Grouped
     /\ Len(peaks) >= 2
     /\ \A p, q \in PeakSet :
            p # q => (~Related(p, q, 2) /\ ~Related(p, q, 3))) =>
        \A i, j \in 1..Len(sorted_peaks) :
            i < j => height(sorted_peaks[i]) >= height(sorted_peaks[j])

====
